---- MODULE Spec2Model ----
(***************************************************************************)
(* Model of the result normalisation of the AI code auditor                *)
(* (src/src/code_analyzer.py, src/src/config.py, src/app.py).              *)
(*                                                                         *)
(* The remote model's reply is untrusted: the model below keeps the        *)
(* Python value that json.loads produces for it, with its type, and        *)
(* follows analyze_code and its helpers statement by statement, the        *)
(* exceptions they raise included.                                         *)
(*                                                                         *)
(* Numbers are fixed point: the field n of a number is its value in        *)
(* hundredths (7.2 is 720), the field f says whether Python holds it as a  *)
(* float (7.0) or as an int (7).                                           *)
(***************************************************************************)
EXTENDS Integers, Sequences, FiniteSets, TLC

VARIABLES
    pc,                 \* "idle" before the button is pressed, "done" after
    reply,              \* the outcome of the remote call of the analysis
    exit,               \* the statement analyze_code left by
    analysis_results,   \* st.session_state.analysis_results
    analysis_history,   \* st.session_state.analysis_history
    request,            \* the arguments of the analysis
    prompt,             \* the prompt _build_analysis_prompt returned
    completed,          \* the analyses of the session that returned a result
    now,                \* the clock
    history,            \* AnalysisHistory.history
    statistics          \* what get_statistics returned since the last add

vars == <<pc, reply, exit, analysis_results, analysis_history, request, prompt,
          completed, now, history, statistics>>

(***************************************************************************)
(* Python values, as json.loads builds them.                               *)
(***************************************************************************)
None == [t |-> "null"]

BoolV(b) == [t |-> "bool", b |-> b]

IntV(i) == [t |-> "num", n |-> 100 * i, f |-> FALSE]

FloatV(h) == [t |-> "num", n |-> h, f |-> TRUE]

\* float("inf"), float("-inf") and float("nan"): json.loads returns them for
\* the literals Infinity, -Infinity, NaN and for a literal such as 1e400.
NonFinite(s) == [t |-> "nonfinite", s |-> s]

StrV(s) == [t |-> "str", s |-> s]

ListV(items) == [t |-> "list", items |-> items]

\* A dict keeps its items in insertion order: a sequence of key/value pairs
\* with distinct keys.
DictV(items) == [t |-> "dict", items |-> items]

Item(k, v) == [k |-> k, v |-> v]

\* type(v).__name__, as it appears in the messages of the exceptions.
TypeName(v) ==
    CASE v.t = "null" -> "NoneType"
      [] v.t = "bool" -> "bool"
      [] v.t = "num" -> (IF v.f THEN "float" ELSE "int")
      [] v.t = "nonfinite" -> "float"
      [] v.t = "str" -> "str"
      [] v.t = "list" -> "list"
      [] v.t = "dict" -> "dict"

\* dict.get(key, default)
Get(d, key, default) ==
    IF \E i \in 1..Len(d.items) : d.items[i].k = key
    THEN d.items[CHOOSE i \in 1..Len(d.items) : d.items[i].k = key].v
    ELSE default

\* Python's truth test, as `not x` applies it.
Truthy(v) ==
    CASE v.t = "null" -> FALSE
      [] v.t = "bool" -> v.b
      [] v.t = "num" -> v.n # 0
      [] v.t = "nonfinite" -> TRUE
      [] v.t = "str" -> v.s # ""
      [] v.t = "list" -> v.items # <<>>
      [] v.t = "dict" -> v.items # <<>>

\* isinstance(value, (int, float)): bool is a subclass of int.
IsNumber(v) == v.t \in {"num", "nonfinite", "bool"}

\* value == other for a number `other` (in hundredths): True == 1, False == 0.
EqualsNumber(v, h) ==
    CASE v.t = "num" -> v.n = h
      [] v.t = "bool" -> (IF v.b THEN 100 ELSE 0) = h
      [] OTHER -> FALSE

(***************************************************************************)
(* Outcomes of a call: a returned value or a raised exception.             *)
(***************************************************************************)
Return(v) == [exc |-> "none", msg |-> "", val |-> v]

Raise(cls, msg) == [exc |-> cls, msg |-> msg, val |-> None]

Raised(o) == o.exc # "none"

(***************************************************************************)
(* Config.score_weights, in hundredths.                                    *)
(***************************************************************************)
WeightQuality == 40

WeightSecurity == 35

WeightPerformance == 25

DefaultScore == 5

OverallDefault == 5

MinScore == 1

MaxScore == 10

ScoreKeys == {"Quality", "Security", "Performance"}

Severities == {"Low", "Medium", "High", "Critical"}

IssueTypes == {"Quality", "Security", "Performance"}

ResultFields == {"overall_score", "scores", "issues", "recommendations", "summary"}

(***************************************************************************)
(* _normalize_scores                                                       *)
(***************************************************************************)
\* round(x) of a finite float x given in hundredths: to the nearest integer,
\* a tie (x.5, exact in binary) to the even one.
RoundHalfEven(h) ==
    LET q == h \div 100
        r == h % 100
    IN  IF r < 50 THEN q
        ELSE IF r > 50 THEN q + 1
        ELSE IF q % 2 = 0 THEN q ELSE q + 1

\* int(round(value)) of a finite number or a bool.
IntRound(value) ==
    IF value.t = "bool" THEN (IF value.b THEN 1 ELSE 0)
    ELSE RoundHalfEven(value.n)

\* max(1, i): the clamp without its upper bound.
ClampNoUpperBound(i) == IF i < MinScore THEN MinScore ELSE i

\* max(1, min(10, i))
Clamp(i) ==
    LET m == IF i > MaxScore THEN MaxScore ELSE i
    IN  IF m < MinScore THEN MinScore ELSE m

\* What round() raises on a float that is not finite.
RoundError(value) ==
    IF value.s = "nan"
    THEN Raise("ValueError", "cannot convert float NaN to integer")
    ELSE Raise("OverflowError", "cannot convert float infinity to integer")

\* The test of line 192.
IsScoreValue(value) == IsNumber(value)

\* The loop of lines 191-193 from item i on.
RECURSIVE NormalizeLoop(_, _, _)
NormalizeLoop(items, i, normalized) ==
    IF i > Len(items) THEN Return(normalized)
    ELSE LET key == items[i].k
             value == items[i].v
         IN  IF IsScoreValue(value)
             THEN IF value.t = "nonfinite" THEN RoundError(value)
                  ELSE NormalizeLoop(items, i + 1,
                           (key :> Clamp(IntRound(value))) @@ normalized)
             ELSE NormalizeLoop(items, i + 1, normalized)

_normalize_scores(scores) ==
    IF scores.t # "dict"
    THEN Raise("AttributeError",
               "'" \o TypeName(scores) \o "' object has no attribute 'items'")
    ELSE NormalizeLoop(scores.items, 1, [k \in ScoreKeys |-> DefaultScore])

(***************************************************************************)
(* The weighted overall score of lines 167-172.                            *)
(***************************************************************************)
\* The triples (q, s, p) of scores in 1..10, written
\* (q-1)*100 + (s-1)*10 + (p-1), whose exact weighted sum lies half way
\* between two tenths and for which the IEEE-754 double evaluation of
\* round(q*0.4 + s*0.35 + p*0.25, 1) gives the upper tenth; for the other
\* ties it gives the lower one.
FloatTieRoundsUp ==
    {
     3, 7, 10, 12, 14, 16, 18, 47, 49, 58, 90, 92, 94, 96,
     98, 110, 114, 118, 130, 132, 134, 136, 138, 161, 165, 169, 181, 183,
     185, 187, 189, 201, 203, 205, 207, 209, 210, 212, 214, 216, 218, 221,
     225, 229, 230, 232, 234, 241, 243, 245, 247, 249, 261, 263, 265, 267,
     269, 272, 276, 290, 292, 294, 296, 298, 301, 303, 305, 307, 309, 325,
     327, 329, 332, 336, 341, 370, 372, 374, 376, 378, 383, 387, 401, 403,
     405, 410, 412, 414, 416, 418, 432, 434, 436, 438, 443, 447, 481, 483,
     485, 487, 489, 490, 494, 498, 501, 503, 507, 510, 512, 514, 516, 518,
     521, 523, 525, 527, 529, 530, 532, 534, 536, 538, 541, 543, 545, 547,
     549, 550, 554, 558, 570, 572, 574, 576, 578, 581, 583, 585, 587, 589,
     590, 592, 594, 596, 598, 601, 603, 605, 607, 609, 610, 614, 618, 630,
     632, 634, 636, 638, 641, 643, 645, 647, 649, 650, 652, 654, 656, 658,
     661, 665, 669, 681, 683, 685, 687, 690, 692, 694, 696, 698, 701, 703,
     705, 707, 709, 710, 712, 714, 716, 718, 721, 725, 729, 741, 743, 745,
     747, 749, 761, 763, 765, 767, 769, 772, 776, 790, 792, 794, 801, 803,
     805, 807, 809, 821, 823, 825, 827, 829, 832, 836, 867, 869, 870, 872,
     874, 876, 878, 883, 887, 910, 912, 914, 916, 918, 930, 932, 934, 936,
     938, 943, 947, 974, 976, 978, 981, 983, 985, 987, 989, 990, 994, 998
    }

\* round(q*w_quality + s*w_security + p*w_performance, 1), in hundredths.
WeightedScore(q, s, p) ==
    LET h == q * WeightQuality + s * WeightSecurity + p * WeightPerformance
        low == (h \div 10) * 10
    IN  IF h % 10 < 5 THEN low
        ELSE IF h % 10 > 5 THEN low + 10
        ELSE IF ((q - 1) * 100 + (s - 1) * 10 + (p - 1)) \in FloatTieRoundsUp
             THEN low + 10
             ELSE low

\* dict.get on the normalized scores (a function from keys to ints).
ScoreOf(scores, key) ==
    IF key \in DOMAIN scores THEN scores[key] ELSE DefaultScore

\* The condition without its `== 5`.
RecomputeWhenFalsyOnly(overall) == ~Truthy(overall)

\* The condition without its `not overall_score`.
RecomputeWhenDefaultOnly(overall) == EqualsNumber(overall, 100 * OverallDefault)

\* The condition of line 164.
NeedsRecompute(overall) ==
    ~Truthy(overall) \/ EqualsNumber(overall, 100 * OverallDefault)

OverallScore(overall, scores) ==
    IF NeedsRecompute(overall)
    THEN FloatV(WeightedScore(ScoreOf(scores, "Quality"),
                              ScoreOf(scores, "Security"),
                              ScoreOf(scores, "Performance")))
    ELSE overall

(***************************************************************************)
(* str(value), as line 206 applies it to an issue's description.           *)
(***************************************************************************)
Abs(i) == IF i < 0 THEN -i ELSE i

\* repr of a finite number: 7 is "7", 7.0 is "7.0", 7.25 is "7.25".
NumberText(v) ==
    IF ~v.f THEN ToString(v.n \div 100)
    ELSE LET a == Abs(v.n)
             frac == a % 100
         IN  (IF v.n < 0 THEN "-" ELSE "") \o ToString(a \div 100) \o "." \o
             (IF frac % 10 = 0 THEN ToString(frac \div 10)
              ELSE (IF frac < 10 THEN "0" ELSE "") \o ToString(frac))

RECURSIVE repr(_)
RECURSIVE JoinRepr(_, _)
RECURSIVE JoinItems(_, _)
\* ", ".join(repr(x) for x in items[i:])
JoinRepr(items, i) ==
    IF i > Len(items) THEN ""
    ELSE repr(items[i]) \o (IF i < Len(items) THEN ", " ELSE "") \o
         JoinRepr(items, i + 1)

JoinItems(items, i) ==
    IF i > Len(items) THEN ""
    ELSE "'" \o items[i].k \o "': " \o repr(items[i].v) \o
         (IF i < Len(items) THEN ", " ELSE "") \o JoinItems(items, i + 1)

repr(v) ==
    CASE v.t = "null" -> "None"
      [] v.t = "bool" -> (IF v.b THEN "True" ELSE "False")
      [] v.t = "num" -> NumberText(v)
      [] v.t = "nonfinite" -> v.s
      [] v.t = "str" -> "'" \o v.s \o "'"
      [] v.t = "list" -> "[" \o JoinRepr(v.items, 1) \o "]"
      [] v.t = "dict" -> "{" \o JoinItems(v.items, 1) \o "}"

str(v) == IF v.t = "str" THEN v.s ELSE repr(v)

(***************************************************************************)
(* _validate_issues                                                        *)
(***************************************************************************)
\* What `for issue in issues` goes through: the elements of a list, the
\* characters of a str, the keys of a dict; anything else is not iterable.
Iterate(v) ==
    CASE v.t = "list" -> Return(v.items)
      [] v.t = "str" -> Return([i \in 1..Len(v.s) |-> StrV(SubSeq(v.s, i, i))])
      [] v.t = "dict" -> Return([i \in 1..Len(v.items) |-> StrV(v.items[i].k)])
      [] OTHER -> Raise("TypeError",
                        "'" \o TypeName(v) \o "' object is not iterable")

\* value in [names]: list membership compares with ==, and only a str
\* equals a str.
InNames(value, names) == value.t = "str" /\ value.s \in names

\* A validation that tests the type of the severity only.
SeverityKeepsAnyString(severity) ==
    IF severity.t = "str" THEN severity ELSE StrV("Medium")

\* Lines 211-213.
ValidSeverity(severity) ==
    IF ~InNames(severity, Severities) THEN StrV("Medium") ELSE severity

\* Lines 215-217.
ValidType(type) ==
    IF ~InNames(type, IssueTypes) THEN StrV("Quality") ELSE type

\* Lines 203-217 for one mapping entry.
ValidatedIssue(issue) ==
    [type |-> ValidType(Get(issue, "type", StrV("Quality"))),
     severity |-> ValidSeverity(Get(issue, "severity", StrV("Medium"))),
     description |->
         StrV(str(Get(issue, "description", StrV("No description provided")))),
     line |-> Get(issue, "line", None),
     code |-> Get(issue, "code", None)]

RECURSIVE ValidateLoop(_, _, _)
\* The loop with insert(0, ...) in place of append.
ValidateLoopPrepends(entries, i, valid_issues) ==
    IF i > Len(entries) THEN valid_issues
    ELSE IF entries[i].t = "dict"
         THEN ValidateLoop(entries, i + 1,
                           <<ValidatedIssue(entries[i])>> \o valid_issues)
         ELSE ValidateLoop(entries, i + 1, valid_issues)

\* The loop of lines 201-219 from entry i on.
ValidateLoop(entries, i, valid_issues) ==
    IF i > Len(entries) THEN valid_issues
    ELSE IF entries[i].t = "dict"
         THEN ValidateLoop(entries, i + 1,
                           Append(valid_issues, ValidatedIssue(entries[i])))
         ELSE ValidateLoop(entries, i + 1, valid_issues)

_validate_issues(issues) ==
    LET it == Iterate(issues)
    IN  IF Raised(it) THEN it
        ELSE Return(ValidateLoop(it.val, 1, <<>>))

(***************************************************************************)
(* _process_analysis_result                                                *)
(***************************************************************************)
\* The recommendations without the wrapping of a str.
RecommendationsUnchanged(recommendations) == recommendations

\* The recommendations wrapped into a list whatever they are.
RecommendationsAlwaysWrapped(recommendations) == ListV(<<recommendations>>)

\* Lines 177-179.
EnsureList(recommendations) ==
    IF recommendations.t = "str" THEN ListV(<<recommendations>>)
    ELSE recommendations

_process_analysis_result(raw_result) ==
    IF raw_result.t # "dict"
    THEN Raise("AttributeError",
               "'" \o TypeName(raw_result) \o "' object has no attribute 'get'")
    ELSE
    LET overall == Get(raw_result, "overall_score", IntV(OverallDefault))
        scores == _normalize_scores(Get(raw_result, "scores", DictV(<<>>)))
        issues == _validate_issues(Get(raw_result, "issues", ListV(<<>>)))
    IN  IF Raised(scores) THEN scores
        ELSE IF Raised(issues) THEN issues
        ELSE Return(
            [overall_score |-> OverallScore(overall, scores.val),
             scores |-> scores.val,
             issues |-> issues.val,
             recommendations |->
                 EnsureList(Get(raw_result, "recommendations", ListV(<<>>))),
             summary |-> Get(raw_result, "summary", StrV("Analysis completed"))])

(***************************************************************************)
(* _create_error_result                                                    *)
(***************************************************************************)
_create_error_result(error_message) ==
    [overall_score |-> IntV(0),
     scores |-> [k \in ScoreKeys |-> 0],
     issues |-> <<[type |-> StrV("Quality"),
                   severity |-> StrV("High"),
                   description |-> StrV("Analysis failed: " \o error_message),
                   line |-> None,
                   code |-> None]>>,
     recommendations |->
         ListV(<<StrV("Please check your code syntax and try again"),
                 StrV("Ensure your OpenAI API key is valid and has sufficient credits")>>),
     summary |-> StrV("Analysis failed due to: " \o error_message)]

(***************************************************************************)
(* analyze_code                                                            *)
(***************************************************************************)
\* json.loads(result_text). A reply text is kept as what the parser makes of
\* it: no text at all (message.content is None), a text that is not JSON
\* with the parser's description of the failure, or the value of a JSON text.
json_loads(result_text) ==
    CASE result_text.kind = "none" ->
             Raise("TypeError",
                   "the JSON object must be str, bytes or bytearray, not NoneType")
      [] result_text.kind = "not_json" ->
             Raise("JSONDecodeError", result_text.err)
      [] result_text.kind = "json" -> Return(result_text.value)

\* The try block of lines 45-71 on one outcome of the remote call.
TryBlock(outcome) ==
    IF outcome.kind = "api_error" THEN Raise(outcome.exc, outcome.msg)
    ELSE LET analysis_result == json_loads(outcome.content)
         IN  IF Raised(analysis_result) THEN analysis_result
             ELSE _process_analysis_result(analysis_result.val)

\* The exception classes that arise, all subclasses of Exception.
ExceptionClasses ==
    {"JSONDecodeError", "TypeError", "AttributeError", "ValueError",
     "OverflowError", "APIConnectionError", "AuthenticationError",
     "RateLimitError"}

\* `except ValueError` in place of `except Exception`.
CaughtOnlyIfValueError(cls) == cls = "ValueError"

\* `except Exception` of line 75.
CaughtByExceptException(cls) == cls \in ExceptionClasses

\* The message without str(e).
ParseErrorMessageWithoutDescription(description) == "Failed to parse AI response"

\* The message of line 74, from str(e).
ParseErrorMessage(description) == "Failed to parse AI response: " \o description

\* The whole of analyze_code: the exit taken and the value returned there.
analyze_code(outcome) ==
    LET r == TryBlock(outcome)
    IN  IF ~Raised(r) THEN [exit |-> "return_71", value |-> r.val]
        ELSE IF r.exc = "JSONDecodeError"
        THEN [exit |-> "return_74",
              value |-> _create_error_result(ParseErrorMessage(r.msg))]
        ELSE IF CaughtByExceptException(r.exc)
        THEN [exit |-> "return_76",
              value |-> _create_error_result("Analysis failed: " \o r.msg)]
        ELSE [exit |-> "raised", value |-> None]

(***************************************************************************)
(* Config.get_file_extension_language                                      *)
(***************************************************************************)
UpperCaseLetters == "ABCDEFGHIJKLMNOPQRSTUVWXYZ"

LowerCaseLetters == "abcdefghijklmnopqrstuvwxyz"

\* The character c in lower case.
LowerChar(c) ==
    IF \E i \in 1..Len(UpperCaseLetters) : SubSeq(UpperCaseLetters, i, i) = c
    THEN LET i == CHOOSE i \in 1..Len(UpperCaseLetters) :
                      SubSeq(UpperCaseLetters, i, i) = c
         IN  SubSeq(LowerCaseLetters, i, i)
    ELSE c

\* str.lower()
RECURSIVE lower(_)
lower(s) ==
    IF s = "" THEN ""
    ELSE LowerChar(SubSeq(s, 1, 1)) \o lower(SubSeq(s, 2, Len(s)))

\* str.rfind(c) counted from 1: the last place of the character c in s, 0 when
\* it has none.
rfind(s, c) ==
    LET places == {i \in 1..Len(s) : SubSeq(s, i, i) = c}
    IN  IF places = {} THEN 0
        ELSE CHOOSE i \in places : \A j \in places : j <= i

\* os.path.splitext(filename)[1]: from the last dot of the last path
\* component on, unless only dots stand before it in that component.
splitext_ext(filename) ==
    LET sepIndex == rfind(filename, "/")
        dotIndex == rfind(filename, ".")
    IN  IF /\ dotIndex > sepIndex
           /\ \E i \in (sepIndex + 1)..(dotIndex - 1) : SubSeq(filename, i, i) # "."
        THEN SubSeq(filename, dotIndex, Len(filename))
        ELSE ""

extension_map ==
    [ext \in {".py", ".js", ".ts", ".tsx", ".jsx", ".java", ".cpp", ".c", ".h",
              ".hpp", ".go", ".rs", ".php", ".rb", ".swift", ".kt", ".scala"} |->
        CASE ext = ".py" -> "python"
          [] ext \in {".js", ".jsx"} -> "javascript"
          [] ext \in {".ts", ".tsx"} -> "typescript"
          [] ext = ".java" -> "java"
          [] ext \in {".cpp", ".hpp"} -> "cpp"
          [] ext \in {".c", ".h"} -> "c"
          [] ext = ".go" -> "go"
          [] ext = ".rs" -> "rust"
          [] ext = ".php" -> "php"
          [] ext = ".rb" -> "ruby"
          [] ext = ".swift" -> "swift"
          [] ext = ".kt" -> "kotlin"
          [] ext = ".scala" -> "scala"]

\* The language of the extension, None for an extension the map lacks.
get_file_extension_language(filename) ==
    LET ext == lower(splitext_ext(filename))
    IN  IF ext \in DOMAIN extension_map THEN StrV(extension_map[ext]) ELSE None

\* Line 37: get_file_extension_language(filename) or "python".
DetectedLanguage(filename) ==
    LET language == get_file_extension_language(filename)
    IN  IF Truthy(language) THEN language.s ELSE "python"

(***************************************************************************)
(* _build_analysis_prompt                                                  *)
(***************************************************************************)
\* separator.join(parts)
RECURSIVE join(_, _)
join(separator, parts) ==
    IF parts = <<>> THEN ""
    ELSE IF Len(parts) = 1 THEN parts[1]
    ELSE parts[1] \o separator \o join(separator, Tail(parts))

\* The list with the security aspect appended ahead of the style aspect.
analysis_aspects_security_first(include_security, include_performance, include_style) ==
    (IF include_security THEN <<"security vulnerabilities">> ELSE <<>>) \o
    (IF include_style THEN <<"code quality and style">> ELSE <<>>) \o
    (IF include_performance THEN <<"performance optimization">> ELSE <<>>)

\* The list built by lines 122-128.
analysis_aspects(include_security, include_performance, include_style) ==
    (IF include_style THEN <<"code quality and style">> ELSE <<>>) \o
    (IF include_security THEN <<"security vulnerabilities">> ELSE <<>>) \o
    (IF include_performance THEN <<"performance optimization">> ELSE <<>>)

\* The fence of a code block, three grave accents in the source; the accent
\* cannot stand in a string here, so a mark no input holds stands for it.
CodeFence == "<fence>"

\* The text of lines 139-146, the same in every prompt.
PromptFocus ==
    "Focus on:\n"
    \o "- Code quality: readability, maintainability, best practices, naming conventions\n"
    \o "- Security: potential vulnerabilities, unsafe operations, input validation\n"
    \o "- Performance: efficiency, algorithm complexity, resource usage\n"
    \o "- Specific issues with line numbers when possible\n"
    \o "- Actionable recommendations for improvement\n"
    \o "\n"
    \o "Provide scores from 1-10 (10 being excellent) and specific, actionable feedback."

_build_analysis_prompt(code, language, filename, include_security, include_performance, include_style) ==
    LET aspects_text ==
            join(", ", analysis_aspects(include_security, include_performance,
                                        include_style))
    IN  "Please analyze this " \o language \o " code file (" \o filename
        \o ") for " \o aspects_text \o ".\n"
        \o "\n"
        \o "Code to analyze:\n"
        \o CodeFence \o language \o "\n"
        \o code \o "\n"
        \o CodeFence \o "\n"
        \o "\n"
        \o PromptFocus

\* Lines 36-43 of analyze_code: the prompt of a request.
RequestPrompt(rq) ==
    _build_analysis_prompt(rq.code, DetectedLanguage(rq.filename), rq.filename,
                           rq.include_security, rq.include_performance,
                           rq.include_style)

(***************************************************************************)
(* The replies the remote model is taken to give.                          *)
(***************************************************************************)
\* The longest issues list of a reply.
MaxIssues == 3

\* Marks a key that a reply leaves out; never a value of a reply.
Absent == [t |-> "absent"]

\* The dict of the pairs whose value is not Absent, in the order given.
MkDict(pairs) == DictV(SelectSeq(pairs, LAMBDA p : p.v # Absent))

ScoreNumbers ==
    {IntV(i) : i \in {-3, 0, 1, 7, 10, 11, 42}} \cup
    {FloatV(h) : h \in {-20, 50, 149, 150, 250, 350, 700, 760, 1000, 1040, 1050}}

ScoreNonFinite == {NonFinite("inf"), NonFinite("-inf"), NonFinite("nan")}

ScoreBooleans == {BoolV(TRUE), BoolV(FALSE)}

ScoreOthers ==
    {None, StrV("8"), StrV(""), ListV(<<IntV(8)>>), DictV(<<Item("value", IntV(8))>>)}

ScoreValues == ScoreNumbers \cup ScoreNonFinite \cup ScoreBooleans \cup ScoreOthers

ScoresDict(q, s, p, x) ==
    MkDict(<<Item("Quality", q), Item("Security", s), Item("Performance", p),
             Item("Maintainability", x)>>)

\* Every triple of integer scores in range, a wide choice for one key beside
\* plain values for the others, and values that are no mapping at all.
ScoresChoices ==
    {ScoresDict(IntV(q), IntV(s), IntV(p), Absent) :
         q \in MinScore..MaxScore, s \in MinScore..MaxScore, p \in MinScore..MaxScore}
    \cup
    {ScoresDict(v, s, p, x) :
         v \in ScoreValues \cup {Absent}, s \in {Absent, IntV(6)},
         p \in {Absent, IntV(4)}, x \in {Absent, IntV(9)}}
    \cup
    {ScoresDict(q, v, p, x) :
         v \in ScoreValues \cup {Absent}, q \in {Absent, IntV(8)},
         p \in {Absent, IntV(4)}, x \in {Absent, IntV(9)}}
    \cup
    {ScoresDict(q, s, v, x) :
         v \in ScoreValues \cup {Absent}, q \in {Absent, IntV(8)},
         s \in {Absent, IntV(6)}, x \in {Absent, IntV(9)}}
    \cup
    {ScoresDict(q, s, p, v) :
         v \in ScoreValues \cup {Absent}, q \in {Absent, IntV(8)},
         s \in {Absent, IntV(6)}, p \in {Absent, IntV(4)}}
    \cup
    {Absent, None, ListV(<<IntV(8), IntV(6), IntV(4)>>), StrV("8/6/4"), IntV(8),
     BoolV(TRUE)}

ScoresFew ==
    {Absent, ScoresDict(IntV(8), IntV(6), IntV(4), Absent),
     ScoresDict(BoolV(TRUE), Absent, FloatV(250), IntV(9)),
     ScoresDict(IntV(8), NonFinite("inf"), Absent, Absent), None}

OverallChoices ==
    {Absent, None, BoolV(FALSE), BoolV(TRUE), IntV(0), FloatV(0), IntV(5),
     FloatV(500), FloatV(720), FloatV(499), IntV(7), IntV(10), IntV(42), IntV(-3),
     FloatV(1001), StrV(""), StrV("8"), ListV(<<>>), ListV(<<IntV(7)>>),
     DictV(<<>>), NonFinite("nan"), NonFinite("inf")}

OverallFew == {Absent, IntV(5), IntV(0), FloatV(720)}

IssueDict(type, severity, description, line, code) ==
    MkDict(<<Item("type", type), Item("severity", severity),
             Item("description", description), Item("line", line),
             Item("code", code)>>)

TypeChoices ==
    {Absent, None, IntV(1), BoolV(TRUE), ListV(<<StrV("Quality")>>)} \cup
    {StrV(s) : s \in IssueTypes \cup {"Unknown", "quality", ""}}

SeverityChoices ==
    {Absent, None, IntV(2), ListV(<<StrV("High")>>)} \cup
    {StrV(s) : s \in Severities \cup {"Blocker", "high", ""}}

DescriptionChoices ==
    {Absent, None, StrV("unused import"), StrV(""), IntV(3), FloatV(720),
     FloatV(-5), BoolV(FALSE), ListV(<<StrV("a"), IntV(1)>>),
     DictV(<<Item("text", StrV("a"))>>)}

LineChoices == {Absent, None, IntV(12), FloatV(1250), StrV("12"), BoolV(TRUE)}

CodeChoices == {Absent, None, StrV("eval(x)"), StrV(""), IntV(0), ListV(<<StrV("x")>>)}

\* Entries that differ in type and severity, and entries that differ in the
\* other three fields.
IssueEntries ==
    {IssueDict(t, s, StrV("unused import"), IntV(12), Absent) :
         t \in TypeChoices, s \in SeverityChoices}
    \cup
    {IssueDict(StrV("Security"), StrV("Blocker"), d, l, c) :
         d \in DescriptionChoices, l \in LineChoices, c \in CodeChoices}

\* The entries the longer lists are made of: two that are no mapping, three
\* mappings that differ.
ListEntries ==
    {StrV("bare string"), None,
     IssueDict(StrV("Security"), StrV("Low"), StrV("first"), IntV(1), Absent),
     IssueDict(StrV("Unknown"), StrV("Blocker"), StrV("second"), None, StrV("x = 1")),
     DictV(<<>>)}

SeqsUpTo(S, n) == UNION {[1..k -> S] : k \in 0..n}

IssuesChoices ==
    {ListV(s) : s \in SeqsUpTo(ListEntries, MaxIssues)} \cup
    {ListV(<<e>>) : e \in IssueEntries} \cup
    {Absent, None, IntV(3), BoolV(TRUE), NonFinite("nan"), StrV(""),
     StrV("no issues"), DictV(<<Item("type", StrV("Quality"))>>)}

IssuesFew ==
    {Absent, None,
     ListV(<<StrV("bare string"),
             IssueDict(StrV("Unknown"), StrV("Blocker"), Absent, Absent, Absent)>>)}

RecommendationsChoices ==
    {Absent, None, IntV(3), BoolV(FALSE), StrV("fix it"), StrV(""), ListV(<<>>),
     ListV(<<StrV("use a context manager"), StrV("add tests")>>),
     ListV(<<StrV("")>>), ListV(<<IntV(3), None>>),
     DictV(<<Item("first", StrV("fix it"))>>)}

SummaryChoices == {Absent, None, StrV("Looks fine"), StrV(""), IntV(1)}

Reply(overall, scores, issues, recommendations, summary) ==
    MkDict(<<Item("overall_score", overall), Item("scores", scores),
             Item("issues", issues), Item("recommendations", recommendations),
             Item("summary", summary)>>)

\* The JSON objects of the replies: each field takes all its choices beside
\* a few choices of the fields it can interact with.
ReplyObjects ==
    {Reply(o, s, Absent, Absent, Absent) : o \in OverallFew, s \in ScoresChoices}
    \cup
    {Reply(o, s, i, Absent, StrV("Looks fine")) :
         o \in OverallChoices, s \in ScoresFew, i \in IssuesFew}
    \cup
    {Reply(o, s, i, Absent, Absent) :
         o \in {Absent, FloatV(720)}, s \in ScoresFew, i \in IssuesChoices}
    \cup
    {Reply(o, s, i, r, m) :
         o \in {Absent, FloatV(720)}, s \in {Absent, None}, i \in IssuesFew,
         r \in RecommendationsChoices, m \in SummaryChoices}

\* JSON texts whose top level is no object.
OtherJson ==
    {None, BoolV(TRUE), IntV(5), NonFinite("nan"), StrV("ok"), ListV(<<>>),
     ListV(<<Reply(IntV(7), Absent, Absent, Absent, Absent)>>)}

ParseFailures ==
    {"Expecting value: line 1 column 1 (char 0)",
     "Expecting property name enclosed in double quotes: line 1 column 2 (char 1)",
     "Extra data: line 1 column 3 (char 2)"}

ApiFailures ==
    {[exc |-> "APIConnectionError", msg |-> "Connection error."],
     [exc |-> "AuthenticationError", msg |-> "Error code: 401"],
     [exc |-> "RateLimitError", msg |-> "Error code: 429"]}

\* The outcomes of the remote call of lines 47-65.
Outcomes ==
    {[kind |-> "api_error", exc |-> f.exc, msg |-> f.msg] : f \in ApiFailures}
    \cup {[kind |-> "reply", content |-> [kind |-> "none"]]}
    \cup {[kind |-> "reply", content |-> [kind |-> "not_json", err |-> e]] :
              e \in ParseFailures}
    \cup {[kind |-> "reply", content |-> [kind |-> "json", value |-> v]] :
              v \in ReplyObjects \cup OtherJson}

(***************************************************************************)
(* The requests: what a button hands to analyze_code.                      *)
(***************************************************************************)
\* The two buttons: the one of an uploaded file and the one of the editor,
\* with the file name each hands to analyze_code and the one it files the
\* analysis under.
Buttons ==
    {[filename |-> "upload.py", filed_as |-> "upload.py"],
     [filename |-> "editor.py", filed_as |-> "Code Editor"]}

Request(code, button, include_security, include_performance, include_style) ==
    [code |-> code, filename |-> button.filename, filed_as |-> button.filed_as,
     include_security |-> include_security,
     include_performance |-> include_performance,
     include_style |-> include_style]

\* The requests of a sidebar left as it starts, its three boxes ticked.
DefaultRequests == {Request("x = 1", b, TRUE, TRUE, TRUE) : b \in Buttons}

CodeChoicesOfRequests == {"", "x = 1", "import os\nos.system(cmd)"}

\* File names handed to analyze_code: known and unknown extensions, capitals,
\* no extension, a leading dot, a dot in a directory's name.
FileNames ==
    {"upload.py", "app.JS", "lib.rs", "Main.Java", "view.tsx", "README",
     ".bashrc", "notes.txt", "v1.2/Makefile", "archive.tar.GO"}

\* The uploader's buttons and the callers of analyze_code beside the app: each
\* files the analysis under the file's name.
OtherCallers == {[filename |-> n, filed_as |-> n] : n \in FileNames}

\* Every button with every setting of the three boxes.
Requests ==
    {Request(code, b, include_security, include_performance, include_style) :
         code \in CodeChoicesOfRequests, b \in Buttons \cup OtherCallers,
         include_security \in BOOLEAN, include_performance \in BOOLEAN,
         include_style \in BOOLEAN}

\* A few outcomes of the remote call, for what does not depend on the reply.
OutcomesOfPrompt ==
    {[kind |-> "api_error", exc |-> "APIConnectionError", msg |-> "Connection error."],
     [kind |-> "reply",
      content |-> [kind |-> "json",
                   value |-> Reply(FloatV(720), Absent, Absent, Absent, Absent)]]}

\* Outcomes whose results differ in overall_score: 0, 5.0, 8.5, 7.5, 42, "8".
OutcomesOfHistory ==
    {[kind |-> "api_error", exc |-> "APIConnectionError", msg |-> "Connection error."]}
    \cup
    {[kind |-> "reply", content |-> [kind |-> "json", value |-> v]] :
         v \in {Reply(Absent, Absent, Absent, Absent, Absent),
                Reply(Absent, ScoresDict(IntV(10), IntV(10), IntV(4), Absent),
                      Absent, Absent, Absent),
                Reply(FloatV(750), Absent, Absent, Absent, Absent),
                Reply(IntV(42), Absent, Absent, Absent, Absent),
                Reply(StrV("8"), Absent, Absent, Absent, Absent)}}

(***************************************************************************)
(* The clock, in ticks, and the two texts made of it.                      *)
(***************************************************************************)
\* The last tick of the clock.
MaxTime == 1

\* The ticks of a minute.
TicksPerMinute == 2

\* datetime.now().isoformat(): a text for each tick.
isoformat(t) == "T" \o ToString(t)

\* datetime.now().strftime("%Y-%m-%d %H:%M"): a text for each minute.
strftime(t) == "M" \o ToString(t \div TicksPerMinute)

(***************************************************************************)
(* AnalysisHistory                                                         *)
(***************************************************************************)
\* The sum of sum(): the numbers from the left, a TypeError at the first
\* value that is no number, a non-finite sum once a non-finite value is in.
RECURSIVE SumLoop(_, _, _)
SumLoop(values, i, total) ==
    IF i > Len(values) THEN Return(total)
    ELSE LET v == values[i]
         IN  IF ~IsNumber(v)
             THEN Raise("TypeError",
                        "unsupported operand type(s) for +: '"
                        \o TypeName(total)
                        \o "' and '" \o TypeName(v) \o "'")
             ELSE IF v.t = "nonfinite" \/ total.t = "nonfinite"
             THEN SumLoop(values, i + 1,
                          IF v.t = "nonfinite" /\ total.t = "nonfinite"
                          THEN (IF v.s = total.s THEN v ELSE NonFinite("nan"))
                          ELSE IF v.t = "nonfinite" THEN v ELSE total)
             ELSE SumLoop(values, i + 1,
                          [t |-> "num",
                           n |-> total.n + (IF v.t = "bool"
                                            THEN (IF v.b THEN 100 ELSE 0)
                                            ELSE v.n),
                           f |-> total.f \/ (v.t = "num" /\ v.f)])

\* a / b rounded to the nearest integer, a tie to the even one (b > 0).
RoundDivHalfEven(a, b) ==
    LET q == a \div b
        r == a % b
    IN  IF 2 * r < b THEN q
        ELSE IF 2 * r > b THEN q + 1
        ELSE IF q % 2 = 0 THEN q ELSE q + 1

\* round(total / count, 1) of line 272.  A mean that lies midway between two
\* tenths is rounded as the float that holds it exactly; the means followed
\* here are multiples of 0.25, which floats hold exactly.
MeanRounded(total, count) ==
    IF total.t = "nonfinite" THEN total
    ELSE FloatV(10 * RoundDivHalfEven(total.n, 10 * count))

\* The history entry of add_analysis, lines 256-260.
AnalysisEntry(timestamp, filename, results) ==
    [timestamp |-> timestamp, filename |-> filename, results |-> results]

get_statistics(entries) ==
    IF entries = <<>> THEN Return([total_analyses |-> IntV(0)])
    ELSE LET total_analyses == Len(entries)
             total == SumLoop([i \in 1..Len(entries) |->
                                   entries[i].results.overall_score],
                              1, IntV(0))
         IN  IF Raised(total) THEN total
             ELSE Return([total_analyses |-> IntV(total_analyses),
                          average_score |-> MeanRounded(total.val, total_analyses),
                          latest_analysis |-> entries[Len(entries)].timestamp])

(***************************************************************************)
(* The session.  analyze_code reads nothing of the session (lines 14-76    *)
(* use their arguments and the configuration only).                        *)
(***************************************************************************)
\* The most analyses a session is followed through.
MaxAnalyses == 2

\* The most entries an AnalysisHistory is followed through.
MaxHistory == 2

NoReply == [kind |-> "no_call"]

NoRequest == [kind |-> "no_request"]

NoStatistics == [kind |-> "not_called"]

\* initialize_session_state on a session that holds nothing yet, and a fresh
\* AnalysisHistory.
Init ==
    /\ pc = "idle"
    /\ reply = NoReply
    /\ exit = "none"
    /\ analysis_results = None
    /\ analysis_history = <<>>
    /\ request = NoRequest
    /\ prompt = ""
    /\ completed = 0
    /\ now = 0
    /\ history = <<>>
    /\ statistics = NoStatistics

\* The entry the handler appends to the session's history.
HistoryEntry(timestamp, filed_as, results) ==
    [timestamp |-> timestamp, filename |-> filed_as,
     overall_score |-> results.overall_score]

\* The history with the newest entry in place of the others.
KeepNewestOnly(entries, entry) == <<entry>>

\* list.append
append(entries, entry) == Append(entries, entry)

\* A button's handler: analyze_code on the request and on the outcome of the
\* remote call, then the result stored and filed in the history; an
\* exception out of analyze_code is caught by the handler and leaves the
\* session as it was.
AnalyzeWith(requests, outcomes) ==
    /\ pc = "idle"
    /\ \E rq \in requests, outcome \in outcomes :
           LET a == analyze_code(outcome)
           IN  /\ request' = rq
               /\ prompt' = RequestPrompt(rq)
               /\ exit' = a.exit
               /\ reply' = outcome
               /\ IF a.exit = "raised"
                  THEN UNCHANGED <<analysis_results, analysis_history, completed>>
                  ELSE /\ analysis_results' = a.value
                       /\ analysis_history' =
                              append(analysis_history,
                                     HistoryEntry(strftime(now), rq.filed_as,
                                                  a.value))
                       /\ completed' = completed + 1
    /\ pc' = "done"
    /\ UNCHANGED <<now, history, statistics>>

\* The handler with the sidebar as it starts, on every outcome.
Analyze == AnalyzeWith(DefaultRequests, Outcomes)

\* The handler on every request.
AnalyzeRequest == AnalyzeWith(Requests, OutcomesOfPrompt)

\* The handler on the outcomes that differ in overall_score.
AnalyzeScored == AnalyzeWith(DefaultRequests, OutcomesOfHistory)

\* st.rerun(): the script runs again on the session as it is.
Rerun ==
    /\ pc = "done"
    /\ completed < MaxAnalyses
    /\ pc' = "idle"
    /\ UNCHANGED <<reply, exit, analysis_results, analysis_history, request,
                   prompt, completed, now, history, statistics>>

\* A new session starts from initialize_session_state.
NewSession ==
    /\ pc = "done"
    /\ pc' = "idle"
    /\ reply' = NoReply
    /\ exit' = "none"
    /\ analysis_results' = None
    /\ analysis_history' = <<>>
    /\ request' = NoRequest
    /\ prompt' = ""
    /\ completed' = 0
    /\ history' = <<>>
    /\ statistics' = NoStatistics
    /\ UNCHANGED now

\* The clock moves on.
Tick ==
    /\ now < MaxTime
    /\ now' = now + 1
    /\ UNCHANGED <<pc, reply, exit, analysis_results, analysis_history, request,
                   prompt, completed, history, statistics>>

\* add_analysis on the result analyze_code last returned; what get_statistics
\* returned before no longer speaks of the history.
add_analysis ==
    /\ pc = "done"
    /\ exit # "raised"
    /\ Len(history) < MaxHistory
    /\ history' = append(history,
                         AnalysisEntry(isoformat(now), request.filename,
                                       analysis_results))
    /\ statistics' = NoStatistics
    /\ UNCHANGED <<pc, reply, exit, analysis_results, analysis_history, request,
                   prompt, completed, now>>

\* A call of get_statistics, and what it returned or raised.
GetStatistics ==
    /\ statistics = NoStatistics
    /\ statistics' = get_statistics(history)
    /\ UNCHANGED <<pc, reply, exit, analysis_results, analysis_history, request,
                   prompt, completed, now, history>>

Next ==
    \/ Analyze
    \/ NewSession

Spec == Init /\ [][Next]_vars

PromptNext ==
    \/ AnalyzeRequest
    \/ NewSession

PromptSpec == Init /\ [][PromptNext]_vars

HistoryNext ==
    \/ AnalyzeScored
    \/ Rerun
    \/ NewSession
    \/ Tick
    \/ add_analysis
    \/ GetStatistics

HistorySpec == Init /\ [][HistoryNext]_vars

(***************************************************************************)
(* What the claims speak of.                                               *)
(***************************************************************************)
\* What analyze_code returned, as the session holds it.
result == analysis_results

\* analyze_code returned from _process_analysis_result (line 71).
Processed == pc = "done" /\ exit = "return_71"

\* The parsed reply, when the reply text was JSON.
RawResult == reply.content.value

\* The raw value of a key of the reply, Absent when the key is missing.
RawField(key) == Get(RawResult, key, Absent)

\* C1: analyze_code lets no exception reach its caller: whatever the outcome
\* of the remote call, it returns, and what it returns has exactly the five
\* fields overall_score, scores, issues, recommendations and summary.
C1_NeverRaises ==
    pc = "done" =>
        /\ exit \in {"return_71", "return_74", "return_76"}
        /\ DOMAIN result = ResultFields

\* A reply whose scores field has the wrong type came back as an error result.
C1_Witness ==
    /\ pc = "done"
    /\ reply.kind = "reply"
    /\ reply.content.kind = "json"
    /\ RawResult.t = "dict"
    /\ RawField("scores").t = "list"
    /\ exit = "return_76"
    /\ DOMAIN result = ResultFields

\* C2: after normalization the scores have exactly the keys Quality,
\* Security and Performance, whatever the raw scores held, and a reply with
\* no scores key yields 5 for each of the three.
C2_ExactlyThreeKeys ==
    Processed =>
        /\ DOMAIN result.scores = ScoreKeys
        /\ RawField("scores") = Absent =>
               result.scores = [k \in ScoreKeys |-> 5]

\* C3 as first stated: a numeric raw score in [1,10] comes back unchanged,
\* one below 1 as 1, one above 10 as 10, always an integer in [1,10].
C3_IdentityInRange ==
    (Processed /\ RawField("scores").t = "dict") =>
        \A key \in ScoreKeys :
            LET v == Get(RawField("scores"), key, Absent)
            IN  v.t = "num" =>
                    /\ result.scores[key] \in 1..10
                    /\ (100 <= v.n /\ v.n <= 1000) => 100 * result.scores[key] = v.n
                    /\ v.n < 100 => result.scores[key] = 1
                    /\ v.n > 1000 => result.scores[key] = 10

\* C3, amended: a finite numeric raw score is rounded to the nearest integer,
\* a tie to the even one, and then clamped to [1,10]: an integer in [1,10]
\* comes back unchanged, a value below 1 as 1, a value above 10 as 10, and
\* the score is always an integer in [1,10]. A score that is not finite
\* makes the normalization raise, and analyze_code returns the error result.
C3_RoundedAndClamped ==
    /\ (Processed /\ RawField("scores").t = "dict") =>
        \A key \in ScoreKeys :
            LET v == Get(RawField("scores"), key, Absent)
                out == result.scores[key]
            IN  v.t = "num" =>
                    /\ out \in 1..10
                    /\ (100 <= v.n /\ v.n <= 1000) =>
                           /\ 100 * out - v.n \in -50..50
                           /\ v.n % 100 = 0 => 100 * out = v.n
                           /\ v.n % 100 = 50 => out % 2 = 0
                    /\ v.n < 100 => out = 1
                    /\ v.n > 1000 => out = 10
    /\ ( /\ pc = "done"
         /\ reply.kind = "reply"
         /\ reply.content.kind = "json"
         /\ RawResult.t = "dict"
         /\ RawField("scores").t = "dict"
         /\ \E i \in 1..Len(RawField("scores").items) :
                RawField("scores").items[i].v.t = "nonfinite" )
       => (exit = "return_76" /\ result.overall_score = IntV(0))

\* A raw Quality of 7.6 came back as 8.
C3_Witness ==
    /\ Processed
    /\ RawField("scores").t = "dict"
    /\ Get(RawField("scores"), "Quality", Absent) = FloatV(760)
    /\ result.scores["Quality"] = 8

\* C4: a raw score that is no JSON number (a string, a boolean, null, a
\* list, an object) is ignored: the normalized score is the default 5.
C4_NonNumbersIgnored ==
    (Processed /\ RawField("scores").t = "dict") =>
        \A key \in ScoreKeys :
            LET v == Get(RawField("scores"), key, Absent)
            IN  v.t \in {"str", "bool", "null", "list", "dict"} =>
                    result.scores[key] = 5

\* The raw values Python takes for false.
Falsy ==
    {None, BoolV(FALSE), IntV(0), FloatV(0), StrV(""), ListV(<<>>), DictV(<<>>)}

\* The exact weighted sum of the returned scores, in hundredths.
ExactWeightedSum ==
    result.scores["Quality"] * WeightQuality
    + result.scores["Security"] * WeightSecurity
    + result.scores["Performance"] * WeightPerformance

\* C5: the overall score is recomputed as the weighted sum of the normalized
\* scores, rounded to one decimal, if and only if the raw overall_score is
\* absent, falsy or equal to 5; any other raw overall_score is returned
\* unchanged. With raw overall_score 5 and scores 8/6/4 the result is 6.3.
C5_OverallReconciled ==
    Processed =>
        LET raw == RawField("overall_score")
            recompute == raw = Absent \/ raw \in Falsy \/ (raw.t = "num" /\ raw.n = 500)
        IN  /\ recompute =>
                /\ result.overall_score.t = "num"
                /\ result.overall_score.n % 10 = 0
                /\ result.overall_score.n - ExactWeightedSum \in -5..5
            /\ ~recompute => result.overall_score = raw
            /\ ( /\ raw = IntV(5)
                 /\ result.scores["Quality"] = 8
                 /\ result.scores["Security"] = 6
                 /\ result.scores["Performance"] = 4 )
               => result.overall_score.n = 630

\* A raw overall_score of 5 beside the scores 8/6/4 came back as 6.3.
C5_Witness ==
    /\ Processed
    /\ RawField("overall_score") = IntV(5)
    /\ RawField("scores") = ScoresDict(IntV(8), IntV(6), IntV(4), Absent)
    /\ result.overall_score = FloatV(630)

\* C6: in every result analyze_code returns, overall_score is a number in
\* the range [0,10].
C6_OverallInRange ==
    pc = "done" =>
        /\ result.overall_score.t = "num"
        /\ result.overall_score.n >= 0
        /\ result.overall_score.n <= 1000

\* The raw issues, when they are a list.
RawIssues == RawField("issues").items

IsMapping(entries, j) == entries[j].t = "dict"

MappingCount(entries) == Cardinality({j \in 1..Len(entries) : IsMapping(entries, j)})

\* The place in `entries` of its i-th mapping entry.
MappingAt(entries, i) ==
    CHOOSE j \in 1..Len(entries) :
        /\ IsMapping(entries, j)
        /\ Cardinality({k \in 1..j : IsMapping(entries, k)}) = i

\* C7: _validate_issues drops every entry that is no mapping and keeps every
\* mapping entry in the original order: as many issues come out as there are
\* mapping entries, and the i-th issue is built from the i-th mapping entry.
C7_MappingsKeptInOrder ==
    (Processed /\ RawField("issues").t = "list") =>
        /\ Len(result.issues) = MappingCount(RawIssues)
        /\ \A i \in 1..Len(result.issues) :
               LET entry == RawIssues[MappingAt(RawIssues, i)]
               IN  /\ result.issues[i].description =
                          StrV(str(Get(entry, "description",
                                       StrV("No description provided"))))
                   /\ result.issues[i].line = Get(entry, "line", None)
                   /\ result.issues[i].code = Get(entry, "code", None)

\* A list of three entries, the first no mapping, gave the two issues of its
\* mappings, in their order.
C7_Witness ==
    /\ Processed
    /\ RawField("issues").t = "list"
    /\ Len(RawIssues) = 3
    /\ ~IsMapping(RawIssues, 1)
    /\ Len(result.issues) = 2
    /\ result.issues[1].description = StrV("first")
    /\ result.issues[2].description = StrV("second")

\* C8: every issue of every result has its type in {Quality, Security,
\* Performance} and its severity in {Low, Medium, High, Critical}: a raw
\* type that is missing or outside the set becomes Quality, a raw severity
\* that is missing or outside the set becomes Medium, a value in the set is
\* kept.
C8_TypeAndSeverityValid ==
    /\ pc = "done" =>
           \A i \in 1..Len(result.issues) :
               /\ result.issues[i].type \in {StrV(s) : s \in IssueTypes}
               /\ result.issues[i].severity \in {StrV(s) : s \in Severities}
    /\ (Processed /\ RawField("issues").t = "list") =>
           \A i \in 1..Len(result.issues) :
               LET entry == RawIssues[MappingAt(RawIssues, i)]
                   type == Get(entry, "type", Absent)
                   severity == Get(entry, "severity", Absent)
               IN  /\ result.issues[i].type =
                          IF type \in {StrV(s) : s \in IssueTypes}
                          THEN type ELSE StrV("Quality")
                   /\ result.issues[i].severity =
                          IF severity \in {StrV(s) : s \in Severities}
                          THEN severity ELSE StrV("Medium")

\* The entry {"type": "Unknown", "severity": "Blocker", ...} came back with
\* type Quality and severity Medium.
C8_Witness ==
    /\ Processed
    /\ RawField("issues").t = "list"
    /\ Len(RawIssues) = 1
    /\ IsMapping(RawIssues, 1)
    /\ Get(RawIssues[1], "type", Absent) = StrV("Unknown")
    /\ Get(RawIssues[1], "severity", Absent) = StrV("Blocker")
    /\ result.issues[1].type = StrV("Quality")
    /\ result.issues[1].severity = StrV("Medium")

\* The reply text was not JSON.
NotJson == pc = "done" /\ reply.kind = "reply" /\ reply.content.kind = "not_json"

\* C9: when the reply text is not valid JSON, analyze_code returns the error
\* result: overall_score 0, the three scores 0, one issue of type Quality and
\* severity High with line and code null and the description "Analysis
\* failed: " followed by a message that embeds the parser's description of
\* the failure, two recommendations, and the summary "Analysis failed due
\* to: " followed by the same message.
C9_ParseFailureResult ==
    NotJson =>
        LET message == "Failed to parse AI response: " \o reply.content.err
        IN  /\ exit = "return_74"
            /\ result.overall_score.t = "num" /\ result.overall_score.n = 0
            /\ result.scores = [k \in ScoreKeys |-> 0]
            /\ Len(result.issues) = 1
            /\ result.issues[1] =
                   [type |-> StrV("Quality"), severity |-> StrV("High"),
                    description |-> StrV("Analysis failed: " \o message),
                    line |-> None, code |-> None]
            /\ result.recommendations.t = "list"
            /\ Len(result.recommendations.items) = 2
            /\ result.summary = StrV("Analysis failed due to: " \o message)

\* A reply that is not JSON came back with the parser's words in the summary.
C9_Witness ==
    /\ NotJson
    /\ reply.content.err = "Expecting property name enclosed in double quotes: line 1 column 2 (char 1)"
    /\ result.summary =
           StrV("Analysis failed due to: Failed to parse AI response: Expecting property name enclosed in double quotes: line 1 column 2 (char 1)")
    /\ Len(result.issues) = 1

ExpectedAspects(include_style, include_security, include_performance) ==
    CASE ~include_style /\ ~include_security /\ ~include_performance -> ""
      [] include_style /\ ~include_security /\ ~include_performance ->
             "code quality and style"
      [] ~include_style /\ include_security /\ ~include_performance ->
             "security vulnerabilities"
      [] ~include_style /\ ~include_security /\ include_performance ->
             "performance optimization"
      [] include_style /\ include_security /\ ~include_performance ->
             "code quality and style, security vulnerabilities"
      [] include_style /\ ~include_security /\ include_performance ->
             "code quality and style, performance optimization"
      [] ~include_style /\ include_security /\ include_performance ->
             "security vulnerabilities, performance optimization"
      [] include_style /\ include_security /\ include_performance ->
             "code quality and style, security vulnerabilities, performance optimization"

\* C11: for every setting of the three aspect flags the prompt names exactly
\* the enabled aspects, in the order style, security, performance, joined by
\* ", " (nothing when all three are off), and holds the code inside a fenced
\* block labelled with the language.
C11_PromptAspects ==
    pc = "done" =>
        prompt =
            "Please analyze this " \o DetectedLanguage(request.filename)
            \o " code file (" \o request.filename \o ") for "
            \o ExpectedAspects(request.include_style, request.include_security,
                               request.include_performance)
            \o ".\n\nCode to analyze:\n"
            \o CodeFence \o DetectedLanguage(request.filename) \o "\n"
            \o request.code \o "\n" \o CodeFence \o "\n\n" \o PromptFocus

\* With the three flags off the prompt of app.JS has an empty aspect list and
\* the code in a block labelled javascript.
C11_Witness ==
    /\ pc = "done"
    /\ ~request.include_style
    /\ ~request.include_security
    /\ ~request.include_performance
    /\ request.filename = "app.JS"
    /\ request.code = "import os\nos.system(cmd)"
    /\ prompt =
           "Please analyze this javascript code file (app.JS) for .\n\nCode to analyze:\n"
           \o CodeFence \o "javascript\nimport os\nos.system(cmd)\n" \o CodeFence
           \o "\n\n" \o PromptFocus

\* The sequence `before` opens the sequence `after`.
IsPrefix(before, after) ==
    /\ Len(before) <= Len(after)
    /\ \A i \in 1..Len(before) : after[i] = before[i]

\* C12: within a session the histories only grow at their end: every analysis
\* that returned a result, normal or error, adds exactly one entry, that of
\* its result, to the session's history; no step removes, reorders or changes
\* an entry of the session's history or of an AnalysisHistory; the session's
\* history is as long as the number of analyses completed.
C12_AppendOnly ==
    [][~NewSession =>
           /\ IsPrefix(analysis_history, analysis_history')
           /\ IsPrefix(history, history')
           /\ Len(analysis_history') = completed'
           /\ (pc = "idle" /\ pc' = "done") =>
                  /\ Len(analysis_history') = Len(analysis_history) + 1
                  /\ analysis_history'[Len(analysis_history')].overall_score =
                         analysis_results'.overall_score
           /\ ~(pc = "idle" /\ pc' = "done") =>
                  analysis_history' = analysis_history]_vars

\* Two analyses of one session, the first an error result and the second a
\* normal one, are both in the history, in that order.
C12_Witness ==
    /\ completed = 2
    /\ Len(analysis_history) = 2
    /\ analysis_history[1].overall_score = IntV(0)
    /\ analysis_history[1].filename = "Code Editor"
    /\ analysis_history[2].overall_score = FloatV(850)
    /\ exit = "return_71"
    /\ Len(history) = 1

\* C13: in every issue of every result analyze_code returns, line is an
\* integer or null and code is a string or null, whatever the raw entry held
\* in those fields.
C13_LineAndCodeTyped ==
    pc = "done" =>
        \A i \in 1..Len(result.issues) :
            /\ \/ result.issues[i].line = None
               \/ result.issues[i].line.t = "num" /\ ~result.issues[i].line.f
            /\ result.issues[i].code.t \in {"null", "str"}

\* C14: in every result analyze_code returns, recommendations is a sequence
\* whose elements are all non-empty strings.
C14_RecommendationsNonEmptyStrings ==
    pc = "done" =>
        /\ result.recommendations.t = "list"
        /\ \A i \in 1..Len(result.recommendations.items) :
               /\ result.recommendations.items[i].t = "str"
               /\ result.recommendations.items[i].s # ""

\* C15: overall_score equals 0 only in error results.  Every result that
\* _process_analysis_result returns has an overall_score different from 0: a
\* raw overall_score of 0, or any other falsy one, is replaced by the weighted
\* sum of scores that are each at least 1, which is at least 1.0.
C15_ZeroOnlyInErrorResults ==
    /\ Processed =>
           /\ ~EqualsNumber(result.overall_score, 0)
           /\ \A key \in ScoreKeys : result.scores[key] >= MinScore
           /\ RawField("overall_score") \in Falsy =>
                  /\ result.overall_score.t = "num"
                  /\ result.overall_score.n >= 100 * MinScore
    /\ (pc = "done" /\ EqualsNumber(result.overall_score, 0)) =>
           exit \in {"return_74", "return_76"}

\* A raw overall_score of 0 beside the scores 1/1/1 came back as 1.0.
C15_Witness ==
    /\ Processed
    /\ RawField("overall_score") = IntV(0)
    /\ RawField("scores") = ScoresDict(IntV(1), IntV(1), IntV(1), Absent)
    /\ result.overall_score = FloatV(100)

\* The elements of a finite set, one after the other.
RECURSIVE SetToSeq(_)
SetToSeq(S) ==
    IF S = {} THEN <<>>
    ELSE LET x == CHOOSE x \in S : TRUE
         IN  <<x>> \o SetToSeq(S \ {x})

\* The returned scores as the dict they are: the three keys first, as line 185
\* inserts them, then the others.
ScoresAsDict(scores) ==
    LET keys == <<"Quality", "Security", "Performance">>
                \o SetToSeq(DOMAIN scores \ ScoreKeys)
    IN  DictV([i \in 1..Len(keys) |-> Item(keys[i], IntV(scores[keys[i]]))])

\* A returned issue as the dict it is (lines 203-209).
IssueAsDict(issue) ==
    DictV(<<Item("type", issue.type), Item("severity", issue.severity),
            Item("description", issue.description), Item("line", issue.line),
            Item("code", issue.code)>>)

\* A result as the dict it is (lines 152-158), to hand it to
\* _process_analysis_result again.
ResultAsDict(r) ==
    DictV(<<Item("overall_score", r.overall_score),
            Item("scores", ScoresAsDict(r.scores)),
            Item("issues", ListV([i \in 1..Len(r.issues) |-> IssueAsDict(r.issues[i])])),
            Item("recommendations", r.recommendations),
            Item("summary", r.summary)>>)

\* C16: normalization is idempotent: on every reply on which
\* _process_analysis_result returns, applying it to its own output returns a
\* result with the same overall_score, scores, issues, recommendations and
\* summary.
C16_Idempotent ==
    Processed =>
        _process_analysis_result(ResultAsDict(result)) = Return(result)

\* A reply that normalization changed (an entry that is no mapping dropped, a
\* type and a severity replaced, a string of recommendations wrapped) is left
\* as it is by a second normalization.
C16_Witness ==
    /\ Processed
    /\ RawField("recommendations") = StrV("fix it")
    /\ RawField("issues").t = "list"
    /\ Len(RawIssues) = 2
    /\ Len(result.issues) = 1
    /\ result.issues[1].type = StrV("Quality")
    /\ ResultAsDict(result) # RawResult
    /\ _process_analysis_result(ResultAsDict(result)) = Return(result)

\* The stored overall_score values are all finite numbers.
StoredScoresAreNumbers ==
    \A i \in 1..Len(history) : history[i].results.overall_score.t = "num"

\* The sum of the stored overall_score values, in hundredths.
RECURSIVE StoredScoreSum(_)
StoredScoreSum(n) ==
    IF n = 0 THEN 0
    ELSE StoredScoreSum(n - 1) + history[n].results.overall_score.n

\* C17: after any sequence of add_analysis calls whose results analyze_code
\* returned, get_statistics returns without raising: {total_analyses: 0} on
\* the empty history, otherwise the number of entries, the mean of the stored
\* overall_score values rounded to one decimal, and the timestamp of the last
\* entry added.
C17_StatisticsReturned ==
    statistics # NoStatistics =>
        /\ ~Raised(statistics)
        /\ history = <<>> => statistics.val = [total_analyses |-> IntV(0)]
        /\ history # <<>> =>
               /\ statistics.val.total_analyses = IntV(Len(history))
               /\ statistics.val.latest_analysis = history[Len(history)].timestamp
               /\ StoredScoresAreNumbers
               /\ statistics.val.average_score.t = "num"
               /\ statistics.val.average_score.n % 10 = 0
               /\ 2 * (statistics.val.average_score.n * Len(history)
                       - StoredScoreSum(Len(history))) \in
                      (-10 * Len(history))..(10 * Len(history))

====
